---- MODULE Spec2Model ----
(***************************************************************************)
(* Model of the type_description crate (src/src/lib.rs): the schema value  *)
(* model (TypeDescription, TypeKind), the scalar registry generated by     *)
(* impl_config_kind!, and the container impls of AsTypeDescription for     *)
(* Option<T>, Vec<T>, HashMap<String, V> and HashMap<PathBuf, V>.          *)
(*                                                                         *)
(* A Rust type is modelled as a non-empty sequence of constructor names,   *)
(* outermost first, ending in the name of a built-in scalar: every         *)
(* container of the crate takes exactly one described type argument, so    *)
(*   HashMap<String, Vec<f64>>  is  <<"HashMap<String>", "Vec", "f64">>.   *)
(*                                                                         *)
(* A TypeDescription is the record [name, kind, doc].  Option<&'static     *)
(* str> is a sequence of length 0 (None) or 1 (Some(text)); Box<T> is a    *)
(* sequence of length 1 holding the owned value.                           *)
(***************************************************************************)
EXTENDS Naturals, Sequences, FiniteSets

\* ------------------------------------------------------------------ bounds
\* Deepest nesting of containers over a scalar among the types of Spec.
MaxDepth == 3

\* Number of descriptions a caller holds side by side in SpecHeld.
MaxHeld == 3

\* ------------------------------------------------- Option<&'static str>
None == <<>>

Some(text) == <<text>>

\* ------------------------------------------------------------ TypeKind
Bool == [tag |-> "Bool"]

Integer == [tag |-> "Integer"]

Float == [tag |-> "Float"]

String == [tag |-> "String"]

Wrapped(boxed) == [tag |-> "Wrapped", payload |-> boxed]

Array(boxed) == [tag |-> "Array", payload |-> boxed]

HashMap(boxed) == [tag |-> "HashMap", payload |-> boxed]

\* Struct(Vec<(field name, field doc, description)>)
Struct(fields) == [tag |-> "Struct", fields |-> fields]

\* Enum(TypeEnumKind, Vec<(variant name, variant doc, representation)>)
Enum(enum_kind, variants) == [tag |-> "Enum", enum_kind |-> enum_kind, variants |-> variants]

\* TypeEnumKind
Tagged(tag_name) == <<"Tagged", tag_name>>

Untagged == <<"Untagged">>

\* EnumVariantRepresentation
ReprString(text) == [repr |-> "String", text |-> text]

ReprWrapped(boxed) == [repr |-> "Wrapped", payload |-> boxed]

BoxNew(value) == <<value>>

Unbox(boxed) == boxed[1]

LeafTags == {"Bool", "Integer", "Float", "String"}

BoxTags == {"Wrapped", "Array", "HashMap"}

\* ----------------------------------------------------- TypeDescription
\* Variant: the constructor leaves the name at its default, the empty string.
new_unnamed(name_, kind_, doc_) == [name |-> "", kind |-> kind_, doc |-> doc_]

new(name_, kind_, doc_) == [name |-> name_, kind |-> kind_, doc |-> doc_]

doc(self) == self.doc

kind(self) == self.kind

name(self) == self.name

\* Variant: the doc is also written into the boxed payload.
with_doc_deep(self, doc_) ==
    [self EXCEPT !.doc = doc_,
                 !.kind = IF self.kind.tag \in BoxTags
                            THEN [self.kind EXCEPT !.payload[1].doc = doc_]
                            ELSE self.kind]

with_doc(self, doc_) == [self EXCEPT !.doc = doc_]

\* ------------------------------------------------------ scalar registry
\* Variant: the macro drops the doc literal.
impl_config_kind_no_doc(kind_, name_, doc_) == [name |-> name_, kind |-> kind_, doc |-> <<>>]

impl_config_kind(kind_, name_, doc_) == new(name_, kind_, Some(doc_))

ScalarImpls ==
    [ i64 |-> impl_config_kind(Integer, "Integer", "A signed integer with 64 bits"),
      NonZeroI64 |-> impl_config_kind(Integer, "Integer", "A signed integer with 64 bits that cannot be zero"),
      u64 |-> impl_config_kind(Integer, "Integer", "An unsigned integer with 64 bits"),
      NonZeroU64 |-> impl_config_kind(Integer, "Integer", "An unsigned integer with 64 bits that cannot be zero"),
      i32 |-> impl_config_kind(Integer, "Integer", "A signed integer with 32 bits"),
      NonZeroI32 |-> impl_config_kind(Integer, "Integer", "A signed integer with 32 bits that cannot be zero"),
      u32 |-> impl_config_kind(Integer, "Integer", "An unsigned integer with 32 bits"),
      NonZeroU32 |-> impl_config_kind(Integer, "Integer", "An unsigned integer with 32 bits that cannot be zero"),
      i16 |-> impl_config_kind(Integer, "Integer", "A signed integer with 16 bits"),
      NonZeroI16 |-> impl_config_kind(Integer, "Integer", "A signed integer with 16 bits that cannot be zero"),
      u16 |-> impl_config_kind(Integer, "Integer", "An unsigned integer with 16 bits"),
      NonZeroU16 |-> impl_config_kind(Integer, "Integer", "An unsigned integer with 16 bits that cannot be zero"),
      i8 |-> impl_config_kind(Integer, "Integer", "A signed integer with 8 bits"),
      NonZeroI8 |-> impl_config_kind(Integer, "Integer", "A signed integer with 8 bits that cannot be zero"),
      u8 |-> impl_config_kind(Integer, "Integer", "An unsigned integer with 8 bits"),
      NonZeroU8 |-> impl_config_kind(Integer, "Integer", "An unsigned integer with 8 bits that cannot be zero"),
      f64 |-> impl_config_kind(Float, "Float", "A floating point value with 64 bits"),
      f32 |-> impl_config_kind(Float, "Float", "A floating point value with 32 bits"),
      bool |-> impl_config_kind(Bool, "Boolean", "A boolean"),
      String |-> impl_config_kind(String, "String", "An UTF-8 string"),
      SocketAddr |-> impl_config_kind(String, "String", "A socket address"),
      SocketAddrV4 |-> impl_config_kind(String, "String", "An IPv4 socket address"),
      SocketAddrV6 |-> impl_config_kind(String, "String", "An IPv6 socket address") ]

ScalarTypes == DOMAIN ScalarImpls

ContainerCtors == {"Option", "Vec", "HashMap<String>", "HashMap<PathBuf>"}

\* ------------------------------------------------- AsTypeDescription
RECURSIVE as_type_description(_)

\* Variant: Option<T> inherits the doc of T.
Option_as_type_description_inherits_doc(T) ==
    new("An optional '" \o name(as_type_description(T)) \o "'",
        Wrapped(BoxNew(as_type_description(T))),
        doc(as_type_description(T)))

\* Variant: Option<T> renames the description of T without wrapping it.
Option_as_type_description_flat(T) ==
    new("An optional '" \o name(as_type_description(T)) \o "'",
        kind(as_type_description(T)),
        None)

\* impl<T: AsTypeDescription> AsTypeDescription for Option<T>
Option_as_type_description(T) ==
    new("An optional '" \o name(as_type_description(T)) \o "'",
        Wrapped(BoxNew(as_type_description(T))),
        None)

\* Variant: the name template of Vec<T> lacks the plural.
Vec_as_type_description_singular(T) ==
    new("Array of '" \o name(as_type_description(T)) \o "'",
        Array(BoxNew(as_type_description(T))),
        None)

\* impl<T: AsTypeDescription> AsTypeDescription for Vec<T>
Vec_as_type_description(T) ==
    new("Array of '" \o name(as_type_description(T)) \o "'s",
        Array(BoxNew(as_type_description(T))),
        None)

\* Variant: HashMap<String, V> inherits the doc of V.
HashMapString_as_type_description_inherits_doc(V) ==
    new("Table of '" \o name(as_type_description(V)) \o "'s",
        HashMap(BoxNew(as_type_description(V))),
        doc(as_type_description(V)))

\* impl<V: AsTypeDescription> AsTypeDescription for HashMap<String, V>
HashMapString_as_type_description(V) ==
    new("Table of '" \o name(as_type_description(V)) \o "'s",
        HashMap(BoxNew(as_type_description(V))),
        None)

\* Variant: the path-keyed map names its key type.
HashMapPathBuf_as_type_description_keyed(V) ==
    new("Table of '" \o name(as_type_description(V)) \o "'s by path",
        HashMap(BoxNew(as_type_description(V))),
        None)

\* impl<V: AsTypeDescription> AsTypeDescription for HashMap<PathBuf, V>
HashMapPathBuf_as_type_description(V) ==
    new("Table of '" \o name(as_type_description(V)) \o "'s",
        HashMap(BoxNew(as_type_description(V))),
        None)

\* Variant: HashMap<String, V> resolves to the impl for Vec<V>.
as_type_description_misrouted(T) ==
    IF Len(T) = 1 THEN ScalarImpls[Head(T)]
    ELSE IF Head(T) = "Option" THEN Option_as_type_description(Tail(T))
    ELSE IF Head(T) = "Vec" THEN Vec_as_type_description(Tail(T))
    ELSE IF Head(T) = "HashMap<String>" THEN Vec_as_type_description(Tail(T))
    ELSE HashMapPathBuf_as_type_description(Tail(T))

\* Static dispatch of T::as_type_description() on the type T.
as_type_description(T) ==
    IF Len(T) = 1 THEN ScalarImpls[Head(T)]
    ELSE IF Head(T) = "Option" THEN Option_as_type_description(Tail(T))
    ELSE IF Head(T) = "Vec" THEN Vec_as_type_description(Tail(T))
    ELSE IF Head(T) = "HashMap<String>" THEN HashMapString_as_type_description(Tail(T))
    ELSE HashMapPathBuf_as_type_description(Tail(T))

\* The describable types with at most n container layers.
RECURSIVE Types(_)
Types(n) ==
    IF n = 0 THEN {<<s>> : s \in ScalarTypes}
    ELSE Types(n - 1) \cup {<<c>> \o T : c \in ContainerCtors, T \in Types(n - 1)}

\* Every TypeDescription node of the tree rooted at d, d included.
RECURSIVE Nodes(_)
Nodes(d) ==
    {d} \cup
    (IF kind(d).tag \in BoxTags THEN Nodes(Unbox(kind(d).payload))
     ELSE IF kind(d).tag = "Struct"
       THEN UNION {Nodes(kind(d).fields[i][3]) : i \in DOMAIN kind(d).fields}
     ELSE IF kind(d).tag = "Enum"
       THEN UNION {IF kind(d).variants[i][3].repr = "Wrapped"
                     THEN Nodes(Unbox(kind(d).variants[i][3].payload))
                     ELSE {} : i \in DOMAIN kind(d).variants}
     ELSE {})

\* ------------------------------------------------------ caller's inputs
\* Documentation arguments a caller passes to with_doc and new.
DocInputs == {None, Some("The port to listen on")}

\* Name arguments a caller passes to new.
NameInputs == {"", "Port"}

\* Kind arguments a caller passes to new, built over an owned description x.
KindInputs(x) ==
    { Integer,
      Wrapped(BoxNew(x)),
      Struct(<< <<"port", Some("The port to listen on"), x>> >>),
      Enum(Tagged("type"),
           << <<"Unit", None, ReprString("Unit")>>,
              <<"Data", None, ReprWrapped(BoxNew(x))>> >>) }

\* ------------------------------------------------- one owned description
\* ty     the type whose description the caller asks for
\* desc   the description the caller owns: <<>> before the first call
\* origin how the owned description was constructed
\* op     the last operation, arg its arguments
\* held   the descriptions a caller owns side by side, each with the type it
\*        was asked of and the operation that returned it
\* last   the last operation on held: its name, the slot it returned into,
\*        its doc argument and the descriptions held before it
VARIABLES ty, desc, origin, op, arg, held, last

vars == <<ty, desc, origin, op, arg, held, last>>

one_vars == <<desc, origin, op, arg>>

held_vars == <<held, last>>

NoOp == [op |-> "none", slot |-> 0, arg |-> None, before |-> <<>>]

Init ==
    /\ ty \in Types(MaxDepth)
    /\ desc = <<>>
    /\ origin = "none"
    /\ op = "none"
    /\ arg = <<>>
    /\ held = <<>>
    /\ last = NoOp

\* let desc = T::as_type_description();
Describe ==
    /\ desc' = <<as_type_description(ty)>>
    /\ origin' = "as_type_description"
    /\ op' = "as_type_description"
    /\ arg' = <<>>
    /\ UNCHANGED <<ty, held_vars>>

\* let desc = desc.with_doc(d);
WithDoc ==
    /\ desc # <<>>
    /\ \E d \in DocInputs :
         /\ desc' = <<with_doc(desc[1], d)>>
         /\ arg' = <<d>>
    /\ op' = "with_doc"
    /\ UNCHANGED <<ty, origin, held_vars>>

\* let desc = TypeDescription::new(n, k, d);
New ==
    /\ \E n \in NameInputs, k \in KindInputs(as_type_description(ty)), d \in DocInputs :
         /\ desc' = <<new(n, k, d)>>
         /\ arg' = <<n, k, d>>
    /\ origin' = "new"
    /\ op' = "new"
    /\ UNCHANGED <<ty, held_vars>>

Next == Describe \/ WithDoc \/ New

Spec == Init /\ [][Next]_vars

\* --------------------------------------------- several owned descriptions
\* The types the caller asks in this specification: the chosen scalar and a
\* nesting of containers over it, whose description embeds the scalar's.
HeldTypes(T) == {T, <<"HashMap<PathBuf>", "Option">> \o T}

\* held.push(T::as_type_description()): a call takes no argument and reads
\* nothing of what the caller holds.
HeldDescribe(h, T) ==
    Append(h, [of |-> T, origin |-> "as_type_description", value |-> as_type_description(T)])

\* held[i] = held[i].with_doc(d): with_doc takes self by value, so the
\* description in slot i is moved in and the returned one takes its place;
\* no other description is reachable from the call.
HeldWithDoc(h, i, d) ==
    [h EXCEPT ![i] = [of |-> h[i].of, origin |-> "with_doc", value |-> with_doc(h[i].value, d)]]

HeldInit ==
    /\ ty \in {<<s>> : s \in ScalarTypes}
    /\ held = <<>>
    /\ last = NoOp
    /\ desc = <<>>
    /\ origin = "none"
    /\ op = "none"
    /\ arg = <<>>

CallHeld ==
    /\ Len(held) < MaxHeld
    /\ \E T \in HeldTypes(ty) :
         /\ held' = HeldDescribe(held, T)
         /\ last' = [op |-> "as_type_description", slot |-> Len(held) + 1,
                     arg |-> None, before |-> held]
    /\ UNCHANGED <<ty, one_vars>>

WithDocHeld ==
    /\ \E i \in 1..Len(held), d \in DocInputs :
         /\ held' = HeldWithDoc(held, i, d)
         /\ last' = [op |-> "with_doc", slot |-> i, arg |-> d, before |-> held]
    /\ UNCHANGED <<ty, one_vars>>

HeldNext == CallHeld \/ WithDocHeld

SpecHeld == HeldInit /\ [][HeldNext]_vars

\* ------------------------------------------------------------ properties
Described == op = "as_type_description"

\* The nodes of a description from the outside in, following the one boxed
\* payload of Wrapped, Array and HashMap.
RECURSIVE Chain(_)
Chain(d) ==
    IF kind(d).tag \in BoxTags THEN <<d>> \o Chain(Unbox(kind(d).payload)) ELSE <<d>>

\* The kind a container layer or a scalar is documented to have.
ExpectedTag(c) ==
    IF c = "Option" THEN "Wrapped"
    ELSE IF c = "Vec" THEN "Array"
    ELSE IF c \in {"HashMap<String>", "HashMap<PathBuf>"} THEN "HashMap"
    ELSE IF c \in {"f32", "f64"} THEN "Float"
    ELSE IF c = "bool" THEN "Bool"
    ELSE IF c \in {"String", "SocketAddr", "SocketAddrV4", "SocketAddrV6"} THEN "String"
    ELSE "Integer"

\* The name a container layer synthesizes from the name below it.
Template(c, inner_name) ==
    IF c = "Option" THEN "An optional '" \o inner_name \o "'"
    ELSE IF c = "Vec" THEN "Array of '" \o inner_name \o "'s"
    ELSE "Table of '" \o inner_name \o "'s"

\* The type with every path-keyed map replaced by a string-keyed map.
EraseKey(T) == [i \in DOMAIN T |-> IF T[i] = "HashMap<PathBuf>" THEN "HashMap<String>" ELSE T[i]]

\* C1: the description of Option<T> is Wrapped over the whole description of
\* T, is named "An optional '<T's name>'" and has no doc of its own.
C1_OptionWrapsInner ==
    (Described /\ Head(ty) = "Option") =>
        /\ kind(desc[1]) = Wrapped(<<as_type_description(Tail(ty))>>)
        /\ name(desc[1]) = "An optional '" \o name(as_type_description(Tail(ty))) \o "'"
        /\ doc(desc[1]) = None

C1_Witness ==
    /\ Described /\ Head(ty) = "Option" /\ Len(ty) = 3
    /\ doc(Unbox(kind(Unbox(kind(desc[1]).payload)).payload)) # None

\* C2: the description of Vec<T> is Array over the whole description of T, is
\* named "Array of '<T's name>'s" and has no doc of its own; Vec<f64> has doc
\* None and an inner kind of Float.
C2_VecArrayOfInner ==
    /\ (Described /\ Head(ty) = "Vec") =>
          /\ kind(desc[1]) = Array(<<as_type_description(Tail(ty))>>)
          /\ name(desc[1]) = "Array of '" \o name(as_type_description(Tail(ty))) \o "'s"
          /\ doc(desc[1]) = None
    /\ (Described /\ ty = <<"Vec", "f64">>) =>
          /\ doc(desc[1]) = None
          /\ kind(desc[1]).tag = "Array"
          /\ kind(Unbox(kind(desc[1]).payload)) = Float

C2_Witness ==
    /\ Described /\ ty = <<"Vec", "f64">>
    /\ name(desc[1]) = "Array of 'Float's"

\* C3: a path-keyed and a string-keyed map over the same value type have the
\* same description, HashMap over the value's description and named "Table of
\* '<value's name>'s", wherever in a nesting the two map shapes occur.
C3_MapKeyLeavesNoTrace ==
    /\ Described => desc[1] = as_type_description(EraseKey(ty))
    /\ (Described /\ Head(ty) \in {"HashMap<String>", "HashMap<PathBuf>"}) =>
          /\ kind(desc[1]) = HashMap(<<as_type_description(Tail(ty))>>)
          /\ name(desc[1]) = "Table of '" \o name(as_type_description(Tail(ty))) \o "'s"

C3_Witness ==
    /\ Described /\ Len(ty) = 3
    /\ ty[1] = "Vec" /\ ty[2] = "HashMap<PathBuf>"
    /\ kind(Unbox(kind(desc[1]).payload)).tag = "HashMap"

\* C4: level by level from the outside in, a nested type's description has
\* the kind of each container layer and finally the scalar's kind, and each
\* level's name is its template applied to the name one level below;
\* HashMap<String, Vec<HashMap<String, String>>> gives
\* HashMap(Array(HashMap(String))) named
\* "Table of 'Array of 'Table of 'String's's's".
C4_NestingComposes ==
    /\ Described =>
          /\ Len(Chain(desc[1])) = Len(ty)
          /\ \A i \in 1..Len(ty) : kind(Chain(desc[1])[i]).tag = ExpectedTag(ty[i])
          /\ \A i \in 1..(Len(ty) - 1) :
                name(Chain(desc[1])[i]) = Template(ty[i], name(Chain(desc[1])[i + 1]))
    /\ (Described /\ ty = <<"HashMap<String>", "Vec", "HashMap<String>", "String">>) =>
          /\ [i \in 1..4 |-> kind(Chain(desc[1])[i]).tag] = <<"HashMap", "Array", "HashMap", "String">>
          /\ name(desc[1]) = "Table of 'Array of 'Table of 'String's's's"

C4_Witness ==
    /\ Described /\ ty = <<"HashMap<String>", "Vec", "HashMap<String>", "String">>
    /\ Len(Chain(desc[1])) = 4

\* C5: every built-in scalar has the kind and name of the table (the integer
\* widths and their NonZero variants Integer/"Integer", f32 and f64
\* Float/"Float", bool Bool/"Boolean", String and the socket addresses
\* String/"String"), a doc that is present, and never a composite kind.
C5_ScalarTable ==
    (Described /\ Len(ty) = 1) =>
        /\ kind(desc[1]) =
             (IF ty[1] \in {"i8", "i16", "i32", "i64", "u8", "u16", "u32", "u64",
                            "NonZeroI8", "NonZeroI16", "NonZeroI32", "NonZeroI64",
                            "NonZeroU8", "NonZeroU16", "NonZeroU32", "NonZeroU64"} THEN Integer
              ELSE IF ty[1] \in {"f32", "f64"} THEN Float
              ELSE IF ty[1] = "bool" THEN Bool
              ELSE String)
        /\ name(desc[1]) =
             (IF kind(desc[1]) = Integer THEN "Integer"
              ELSE IF kind(desc[1]) = Float THEN "Float"
              ELSE IF kind(desc[1]) = Bool THEN "Boolean"
              ELSE "String")
        /\ doc(desc[1]) # None
        /\ kind(desc[1]).tag \in LeafTags

C5_Witness ==
    /\ Described /\ ty = <<"NonZeroU16">>
    /\ doc(desc[1]) = Some("An unsigned integer with 16 bits that cannot be zero")

\* C8 as stated: every description obtainable through the public interface,
\* TypeDescription::new with any arguments included, has a non-empty name at
\* every node.
C8_NameNeverEmpty ==
    desc # <<>> => \A n \in Nodes(desc[1]) : name(n) # ""

\* C8, amended: every node of a description returned by as_type_description(),
\* also after with_doc, has a non-empty name; TypeDescription::new validates
\* nothing and returns exactly the name, kind and doc it was given, so that
\* its result's name is empty when the name given is.
C8_NameAsConstructed ==
    /\ origin = "as_type_description" => \A n \in Nodes(desc[1]) : name(n) # ""
    /\ op = "new" =>
          /\ name(desc[1]) = arg[1] /\ kind(desc[1]) = arg[2] /\ doc(desc[1]) = arg[3]
          /\ (name(desc[1]) = "") = (arg[1] = "")

C8_Witness ==
    /\ op = "new" /\ arg[1] = "Port"
    /\ kind(desc[1]).tag = "Wrapped"
    /\ Cardinality(Nodes(desc[1])) = MaxDepth + 2
    /\ \A n \in Nodes(desc[1]) : name(n) # ""

\* C9: for k container layers over a scalar, as_type_description() returns a
\* single chain of exactly k composite nodes (Wrapped, Array or HashMap) that
\* ends in one leaf node (Bool, Integer, Float or String).
C9_DepthIsNesting ==
    Described =>
        /\ Len(Chain(desc[1])) = Len(ty)
        /\ Cardinality(Nodes(desc[1])) = Len(ty)
        /\ \A i \in 1..(Len(ty) - 1) : kind(Chain(desc[1])[i]).tag \in BoxTags
        /\ kind(Chain(desc[1])[Len(ty)]).tag \in LeafTags

C9_Witness ==
    /\ Described /\ Len(ty) = MaxDepth + 1
    /\ kind(Chain(desc[1])[MaxDepth + 1]).tag \in LeafTags

\* C10: in a tree returned by as_type_description(), before any with_doc, a
\* node has no doc exactly if its kind is Wrapped, Array or HashMap and has a
\* doc exactly if its kind is a leaf; the innermost leaf is the scalar's own
\* description, doc included, at every nesting depth.
C10_DocOnLeavesOnly ==
    Described =>
        /\ \A n \in Nodes(desc[1]) :
              /\ (doc(n) = None) = (kind(n).tag \in BoxTags)
              /\ (doc(n) # None) = (kind(n).tag \in LeafTags)
        /\ Chain(desc[1])[Len(ty)] = ScalarImpls[ty[Len(ty)]]

C10_Witness ==
    /\ Described /\ Len(ty) = 3 /\ ty[3] = "SocketAddrV6"
    /\ doc(desc[1]) = None
    /\ doc(Chain(desc[1])[3]) = Some("An IPv6 socket address")

\* C7: with_doc(d) returns a description whose doc is d, also when d is None,
\* and whose name and kind, nested payload included, are those of the
\* description it was called on (which is moved into the call and comes back
\* as the result); every other description held stays as it was, and
\* descriptions of one type differ at most in their own doc.
C7_WithDocFrame ==
    /\ last.op = "with_doc" =>
          /\ doc(held[last.slot].value) = last.arg
          /\ name(held[last.slot].value) = name(last.before[last.slot].value)
          /\ kind(held[last.slot].value) = kind(last.before[last.slot].value)
          /\ Len(held) = Len(last.before)
          /\ \A j \in 1..Len(held) : j # last.slot => held[j] = last.before[j]
    /\ \A i, j \in 1..Len(held) :
          held[i].of = held[j].of =>
             /\ name(held[i].value) = name(held[j].value)
             /\ kind(held[i].value) = kind(held[j].value)

C7_Witness ==
    /\ Len(held) = 2
    /\ last.op = "with_doc" /\ last.slot = 1 /\ last.arg = None
    /\ held[1].of = <<"HashMap<PathBuf>", "Option">> \o ty
    /\ doc(last.before[1].value) = Some("The port to listen on")
    /\ doc(held[1].value) = None
    /\ Chain(held[1].value) = Chain(as_type_description(held[1].of))
    /\ doc(Chain(held[1].value)[3]) # None
    /\ held[2].of = <<"HashMap<PathBuf>", "Option">> \o ty /\ held[2].origin = "as_type_description"

====
